---- MODULE Spec2Model ----
(***************************************************************************)
(* The building operations of the document-store Registrar                 *)
(* (pkg/registry/building_dynamodb.go): RegisterBuilding, GetBuildingByID, *)
(* ListBuildings and DeregisterBuilding over one DynamoDB table, called by *)
(* concurrent callers.  The unit and resident operations and the           *)
(* identifier generator follow the Registrar contract (sections 4.2-4.5).  *)
(***************************************************************************)
EXTENDS Integers, Sequences, FiniteSets, TLC

\* ------------------------------------------------------------------ bounds
\* identifiers the generator issues in one run
MaxULID == 3
\* callers that may run RegisterBuilding concurrently
NumCallers == 2

\* ------------------------------------------------------------- environment
\* DynamoDB answers one Scan request with at most 1 MB of items and a
\* LastEvaluatedKey for the rest; the page size is counted here in items.
ScanPageLimit == 2

\* The canonical text of the n-th identifier (ulid.ULID.String()): fixed
\* length, injective, ordered as the identifiers are.
ULIDString(n) ==
    <<"01H0", "01H1", "01H2", "01H3", "01H4", "01H5", "01H6", "01H7">>[n]

\* a nil pointer, and a pointer to a record
Nil == <<>>
Ptr(b) == <<b>>
Deref(p) == p[1]

\* errors as the callers see them
NoError == "nil"
BadRequest == "apiutils.Error(400)"
WithStack == "errors.WithStack"
NotFound == "apiutils.Error(404)"

\* what a request to the store can do: succeed; fail without effect; or be
\* applied while the call still returns an error (a deadline or cancellation
\* that hits after the request was sent)
DBOutcomes == {"ok", "lost", "unacked"}
Applied(outcome) == outcome \in {"ok", "unacked"}
Failed(outcome) == outcome \in {"lost", "unacked"}
\* what the caller of the request learns of it
Answer(outcome) == IF Failed(outcome) THEN "failed" ELSE "ok"

BuildingNames == {"", "A"}

VARIABLES
    buildingTable,  \* dr.Config.BuildingTableName: key -> item
    unitTable,      \* the unit table: key -> unit
    residentTable,  \* the resident table: key -> resident
    ulidClock,      \* identifiers issued so far by getULID
    pending,        \* the RegisterBuilding calls in flight: the locals of each
                    \* call that has its item encoded and its PutItem to send
    registered,     \* ID -> the building a successful RegisterBuilding returned
    deregistered,   \* ID -> how many DeregisterBuilding calls on it returned
                    \* without error (0, 1, or 2 for more), for the IDs passed
                    \* to DeregisterBuilding after RegisterBuilding returned them
    ret             \* the call that returned last: its arguments and results

vars == <<buildingTable, unitTable, residentTable, ulidClock, pending,
          registered, deregistered, ret>>

\* A generated identifier is unique with overwhelming probability, so a
\* caller can name one only after the registrar has shown it: returned by
\* RegisterBuilding, or stored and so listed.  Besides those, callers pass
\* arbitrary text.
KnownIDs == DOMAIN registered \cup DOMAIN buildingTable
CallerIDs == {"", "something"} \cup KnownIDs
LookupIDs == {"nonexistent"} \cup KnownIDs

BuildingInputs ==
    {Nil} \cup {Ptr([ID |-> i, Name |-> n]) : i \in CallerIDs, n \in BuildingNames}

\* ------------------------------------------------------ dynamodbattribute
\* A Go string encodes to {S: s}; the empty string encodes to {NULL: true}.
AttributeValue(s) ==
    IF s = "" THEN [T |-> "NULL", V |-> ""] ELSE [T |-> "S", V |-> s]

\* NULL decodes to the zero value of the field.
StringValue(av) == IF av.T = "S" THEN av.V ELSE ""

MarshalMap(building) ==
    [ID |-> AttributeValue(building.ID), Name |-> AttributeValue(building.Name)]

UnmarshalMap(item) ==
    [ID |-> StringValue(item.ID), Name |-> StringValue(item.Name)]

\* Encoding fails for a value of a kind that has no attribute form; the two
\* string fields of a Building always have one.
MarshalError(building) == FALSE

\* Decoding into a string field fails for an attribute that is neither a
\* string nor NULL.
UnmarshalError(item) ==
    item.ID.T \notin {"S", "NULL"} \/ item.Name.T \notin {"S", "NULL"}

\* ---------------------------------------------------------------- DynamoDB
PutItem(table, item) ==
    [k \in DOMAIN table \cup {item.ID.V} |->
        IF k = item.ID.V THEN item ELSE table[k]]

GetItem(table, key) == IF key \in DOMAIN table THEN Ptr(table[key]) ELSE Nil

DeleteItem(table, key) == [k \in DOMAIN table \ {key} |-> table[k]]

\* the pages a Scan request may answer with: as many items as fit
ScanPages(table) ==
    LET n == Cardinality(DOMAIN table)
        size == IF n < ScanPageLimit THEN n ELSE ScanPageLimit
    IN {page \in SUBSET DOMAIN table : Cardinality(page) = size}

\* the position of a key in the order the store returns keys
KeyRank(k) ==
    IF \E n \in 1 .. 8 : ULIDString(n) = k
    THEN CHOOSE n \in 1 .. 8 : ULIDString(n) = k
    ELSE 0

RECURSIVE KeySeq(_)
KeySeq(keys) ==
    IF keys = {} THEN <<>>
    ELSE LET k == CHOOSE x \in keys : \A y \in keys : KeyRank(x) <= KeyRank(y)
         IN <<k>> \o KeySeq(keys \ {k})

EmptyTable == [k \in {} |-> Nil]

NoCall ==
    [op |-> "none", id |-> "", in |-> Nil, inAfter |-> Nil, building |-> Nil,
     buildings |-> [isNil |-> TRUE, elems |-> <<>>], db |-> "ok", err |-> NoError]

Init ==
    /\ buildingTable = EmptyTable
    /\ unitTable = EmptyTable
    /\ residentTable = EmptyTable
    /\ ulidClock = 0
    /\ pending = {}
    /\ registered = EmptyTable
    /\ deregistered = EmptyTable
    /\ ret = NoCall

\* ------------------------------------------------------------ getULID
\* The identifier the generator hands out next.  Every call advances
\* ulidClock in the same step, so no two calls are handed the same one.
getULID == ULIDString(ulidClock + 1)

\* ------------------------------------------------------ RegisterBuilding
\* the argument check with the test of the name left out
InvalidInputNilOnly(in) == in = Nil

\* in == nil || in.Name == ""
InvalidInput(in) == in = Nil \/ Deref(in).Name = ""

\* the copy given a generated ID only where the caller supplied none
NewBuildingKeepID(in, id) ==
    [Deref(in) EXCEPT !.ID = IF Deref(in).ID = "" THEN id ELSE Deref(in).ID]

\* building = new(Building); *building = *in; building.ID = getULID().String()
NewBuilding(in, id) == [Deref(in) EXCEPT !.ID = id]

\* the caller's record *in once the copy has been given its ID
CallerRecord(in, id) == in

\* the building left set when PutItemWithContext fails
PutResultKeepBuilding(building, outcome) == Ptr(building)

\* the building returned after PutItemWithContext
PutResult(building, outcome) ==
    IF Failed(outcome) THEN Nil ELSE Ptr(building)

\* From the call to the point where the PutItem request is sent: argument
\* check, copy, identifier, encoding.
RegisterBuildingBegin(in) ==
    /\ Cardinality(pending) < NumCallers
    /\ IF InvalidInput(in)
       THEN /\ ret' = [NoCall EXCEPT !.op = "RegisterBuilding", !.in = in,
                                     !.inAfter = in, !.err = BadRequest]
            /\ UNCHANGED <<ulidClock, pending>>
       ELSE /\ ulidClock < MaxULID
            /\ ulidClock' = ulidClock + 1
            /\ LET building == NewBuilding(in, getULID)
                   after == CallerRecord(in, getULID)
               IN IF MarshalError(building)
                  THEN /\ ret' = [NoCall EXCEPT !.op = "RegisterBuilding",
                                      !.in = in, !.inAfter = after,
                                      !.err = WithStack]
                       /\ UNCHANGED pending
                  ELSE /\ pending' = pending \cup
                              {[call |-> ulidClock', in |-> in,
                                inAfter |-> after, building |-> building,
                                item |-> MarshalMap(building)]}
                       /\ UNCHANGED ret
    /\ UNCHANGED <<buildingTable, unitTable, residentTable, registered,
                   deregistered>>

\* The PutItem request and the return.
RegisterBuildingPut(f, outcome) ==
    /\ f \in pending
    /\ LET building == PutResult(f.building, outcome)
       IN /\ buildingTable' =
                IF Applied(outcome)
                THEN PutItem(buildingTable, f.item)
                ELSE buildingTable
          /\ ret' = [NoCall EXCEPT !.op = "RegisterBuilding",
                         !.in = f.in, !.inAfter = f.inAfter,
                         !.building = building, !.db = Answer(outcome),
                         !.err = IF Failed(outcome) THEN WithStack ELSE NoError]
          /\ registered' =
                IF ~Failed(outcome) /\ building # Nil
                THEN [k \in DOMAIN registered \cup {Deref(building).ID} |->
                        IF k = Deref(building).ID THEN Deref(building)
                        ELSE registered[k]]
                ELSE registered
    /\ pending' = pending \ {f}
    /\ UNCHANGED <<unitTable, residentTable, ulidClock, deregistered>>

\* ------------------------------------------------------- GetBuildingByID
\* the result with the decoding of out.Item left out
GetResultNoUnmarshal(item) ==
    IF item = Nil THEN [building |-> Nil, err |-> NoError]
    ELSE [building |-> Ptr([ID |-> "", Name |-> ""]), err |-> NoError]

\* the result with the test of out.Item == nil left out: a nil map decodes
\* into a zero Building
GetResultNoNilCheck(item) ==
    IF item = Nil THEN [building |-> Ptr([ID |-> "", Name |-> ""]), err |-> NoError]
    ELSE [building |-> Ptr(UnmarshalMap(Deref(item))), err |-> NoError]

\* what the call returns once GetItemWithContext has answered with out.Item
GetResult(item) ==
    IF item = Nil THEN [building |-> Nil, err |-> NoError]
    ELSE IF UnmarshalError(Deref(item)) THEN [building |-> Nil, err |-> WithStack]
    ELSE [building |-> Ptr(UnmarshalMap(Deref(item))), err |-> NoError]

GetBuildingByID(buildingID, outcome) ==
    /\ LET item == GetItem(buildingTable, buildingID)
           res == IF Failed(outcome)
                  THEN [building |-> Nil, err |-> WithStack]
                  ELSE GetResult(item)
       IN ret' = [NoCall EXCEPT !.op = "GetBuildingByID", !.id = buildingID,
                      !.building = res.building, !.db = Answer(outcome),
                      !.err = res.err]
    /\ UNCHANGED <<buildingTable, unitTable, residentTable, ulidClock, pending, registered, deregistered>>

\* ---------------------------------------------------- DeregisterBuilding
\* the calls that returned without error, counted as none, one, or more
Successes(before, err) ==
    IF err # NoError THEN before
    ELSE IF before = 0 THEN 1 ELSE 2

\* the error of a delete conditioned on the key being there
DeleteErrorIfAbsent(table, buildingID, outcome) ==
    IF Failed(outcome) \/ buildingID \notin DOMAIN table THEN WithStack ELSE NoError

\* the error DeregisterBuilding returns for the answer of DeleteItemWithContext
DeleteError(table, buildingID, outcome) ==
    IF Failed(outcome) THEN WithStack ELSE NoError

\* the delete sent to the unit table instead
TablesAfterDeleteWrongTable(buildingID) ==
    [buildings |-> buildingTable,
     units |-> DeleteItem(unitTable, buildingID),
     residents |-> residentTable]

\* the delete followed by the removal of the building's units
TablesAfterDeleteCascade(buildingID) ==
    [buildings |-> DeleteItem(buildingTable, buildingID),
     units |-> [k \in {u \in DOMAIN unitTable :
                         unitTable[u].BuildingID # buildingID} |-> unitTable[k]],
     residents |-> residentTable]

\* the tables after DeleteItemWithContext of the building table's key
TablesAfterDelete(buildingID) ==
    [buildings |-> DeleteItem(buildingTable, buildingID),
     units |-> unitTable,
     residents |-> residentTable]

DeregisterBuilding(buildingID, outcome) ==
    /\ LET after == TablesAfterDelete(buildingID)
       IN IF Applied(outcome)
          THEN /\ buildingTable' = after.buildings
               /\ unitTable' = after.units
               /\ residentTable' = after.residents
          ELSE UNCHANGED <<buildingTable, unitTable, residentTable>>
    /\ ret' = [NoCall EXCEPT !.op = "DeregisterBuilding", !.id = buildingID,
                   !.db = Answer(outcome),
                   !.err = DeleteError(buildingTable, buildingID, outcome)]
    /\ deregistered' =
          IF buildingID \in DOMAIN registered
          THEN [k \in DOMAIN deregistered \cup {buildingID} |->
                  IF k = buildingID
                  THEN Successes(IF k \in DOMAIN deregistered
                                 THEN deregistered[k] ELSE 0, ret'.err)
                  ELSE deregistered[k]]
          ELSE deregistered
    /\ UNCHANGED <<ulidClock, pending, registered>>

\* --------------------------------------------------------- ListBuildings
\* the index of the first item that does not decode, 0 when all decode
FirstUndecodable(items) ==
    IF \E i \in 1 .. Len(items) : UnmarshalError(items[i])
    THEN CHOOSE i \in 1 .. Len(items) :
            /\ UnmarshalError(items[i])
            /\ \A j \in 1 .. i - 1 : ~UnmarshalError(items[j])
    ELSE 0

\* buildings = make([]*Building, Count), then UnmarshalListOfMaps(out.Items,
\* &buildings): item i is decoded into element i, and decoding stops at the
\* first item that fails, with the slice cut after that element.
ListResult(items) ==
    LET failAt == FirstUndecodable(items)
    IN IF failAt = 0
       THEN [buildings |-> [isNil |-> FALSE,
                            elems |-> [i \in 1 .. Len(items) |->
                                         Ptr(UnmarshalMap(items[i]))]],
             err |-> NoError]
       ELSE [buildings |-> [isNil |-> FALSE,
                            elems |-> [i \in 1 .. failAt |->
                                         IF i < failAt
                                         THEN Ptr(UnmarshalMap(items[i]))
                                         ELSE Ptr([ID |-> "", Name |-> ""])]],
             err |-> WithStack]

\* One ScanWithContext request; out.LastEvaluatedKey is not read.
ListBuildings(outcome, page) ==
    /\ page \in ScanPages(buildingTable)
    /\ LET keys == KeySeq(page)
           items == [i \in 1 .. Len(keys) |-> buildingTable[keys[i]]]
           res == IF Failed(outcome)
                  THEN [buildings |-> [isNil |-> TRUE, elems |-> <<>>],
                        err |-> WithStack]
                  ELSE ListResult(items)
       IN ret' = [NoCall EXCEPT !.op = "ListBuildings",
                      !.buildings = res.buildings, !.db = Answer(outcome),
                      !.err = res.err]
    /\ UNCHANGED <<buildingTable, unitTable, residentTable, ulidClock, pending,
                   registered, deregistered>>

\* ------------------------------------------------- units and residents
\* One item per unit, keyed by its generated identifier; BuildingID is a
\* plain attribute, not checked against the building table.
RegisterUnit(name, buildingID) ==
    /\ ulidClock < MaxULID
    /\ ulidClock' = ulidClock + 1
    /\ unitTable' = [k \in DOMAIN unitTable \cup {getULID} |->
                        IF k = getULID
                        THEN [ID |-> getULID, Name |-> name,
                              BuildingID |-> buildingID]
                        ELSE unitTable[k]]
    /\ ret' = [NoCall EXCEPT !.op = "RegisterUnit", !.id = getULID]
    /\ UNCHANGED <<buildingTable, residentTable, pending, registered,
                   deregistered>>

\* A resident starts unassigned.
RegisterResident(firstname) ==
    /\ ulidClock < MaxULID
    /\ ulidClock' = ulidClock + 1
    /\ residentTable' = [k \in DOMAIN residentTable \cup {getULID} |->
                            IF k = getULID
                            THEN [ID |-> getULID, Firstname |-> firstname,
                                  UnitID |-> ""]
                            ELSE residentTable[k]]
    /\ ret' = [NoCall EXCEPT !.op = "RegisterResident", !.id = getULID]
    /\ UNCHANGED <<buildingTable, unitTable, pending, registered,
                   deregistered>>

\* A single-item update: NotFound for an absent resident, and no check that
\* the destination unit exists.
MoveResident(residentID, unitID) ==
    /\ IF residentID \in DOMAIN residentTable
       THEN /\ residentTable' =
                  [residentTable EXCEPT ![residentID].UnitID = unitID]
            /\ ret' = [NoCall EXCEPT !.op = "MoveResident", !.id = residentID]
       ELSE /\ ret' = [NoCall EXCEPT !.op = "MoveResident", !.id = residentID,
                           !.err = NotFound]
            /\ UNCHANGED residentTable
    /\ UNCHANGED <<buildingTable, unitTable, ulidClock, pending, registered,
                   deregistered>>

\* The building operations, as concurrent callers interleave them.
Next ==
    \/ \E in \in BuildingInputs : RegisterBuildingBegin(in)
    \/ \E f \in pending, outcome \in DBOutcomes :
          RegisterBuildingPut(f, outcome)
    \/ \E buildingID \in LookupIDs, outcome \in {"ok", "lost"} :
          GetBuildingByID(buildingID, outcome)
    \/ \E buildingID \in LookupIDs, outcome \in DBOutcomes :
          DeregisterBuilding(buildingID, outcome)
    \/ \E outcome \in {"ok", "lost"}, page \in ScanPages(buildingTable) :
          ListBuildings(outcome, page)

Spec == Init /\ [][Next]_vars

\* Every operation that writes to a table, those of units and residents
\* included; the reads of the building table change none of them.
NextWrites ==
    \/ \E in \in {Nil, Ptr([ID |-> "", Name |-> "A"])} :
          RegisterBuildingBegin(in)
    \/ \E f \in pending, outcome \in DBOutcomes :
          RegisterBuildingPut(f, outcome)
    \/ \E buildingID \in LookupIDs, outcome \in DBOutcomes :
          DeregisterBuilding(buildingID, outcome)
    \/ \E buildingID \in LookupIDs : RegisterUnit("U", buildingID)
    \/ RegisterResident("Josiah")
    \/ \E residentID \in {"nonexistent"} \cup DOMAIN residentTable,
          unitID \in {"nonexistent"} \cup DOMAIN unitTable :
          MoveResident(residentID, unitID)

SpecWrites == Init /\ [][NextWrites]_vars

\* ================================================================ claims
StoredBuildings == {UnmarshalMap(buildingTable[k]) : k \in DOMAIN buildingTable}

\* C1: a GetBuildingByID that the store answers, for an ID that a successful
\* RegisterBuilding returned and that no DeregisterBuilding was called on
\* since, returns no error and a building equal in ID and Name to the one
\* RegisterBuilding returned.
C1_RoundTrip ==
    (/\ ret.op = "GetBuildingByID"
     /\ ret.db = "ok"
     /\ ret.id \in DOMAIN registered
     /\ ret.id \notin DOMAIN deregistered)
    => /\ ret.err = NoError
       /\ ret.building = Ptr(registered[ret.id])

\* a registered building read back while another building is stored too
C1_Witness ==
    /\ ret.op = "GetBuildingByID"
    /\ ret.db = "ok"
    /\ ret.id \in DOMAIN registered
    /\ ret.id \notin DOMAIN deregistered
    /\ ret.building # Nil
    /\ Cardinality(DOMAIN buildingTable) >= 2

\* C2: a RegisterBuilding that succeeds returns a building whose ID is not
\* empty and differs from the ID the caller supplied in `in`.
C2_GeneratedIDDiffers ==
    (ret.op = "RegisterBuilding" /\ ret.err = NoError)
    => /\ ret.building # Nil
       /\ Deref(ret.building).ID # ""
       /\ Deref(ret.building).ID # Deref(ret.in).ID

\* a successful registration whose input carried the ID of a building that
\* is registered
C2_Witness ==
    /\ ret.op = "RegisterBuilding"
    /\ ret.err = NoError
    /\ Deref(ret.in).ID \in DOMAIN registered

\* C3: when a RegisterBuilding call succeeds, the ID it returns was returned
\* by no earlier successful call and keys no stored item, however the calls
\* overlap.
C3_UniqueIDs ==
    [][\A f \in pending :
          (f \notin pending' /\ ret'.op = "RegisterBuilding" /\ ret'.err = NoError)
          => /\ f.building.ID \notin DOMAIN registered
             /\ f.building.ID \notin DOMAIN buildingTable]_vars

\* a call that began later has returned its building while a call that
\* began earlier still has its PutItem to send
C3_Witness ==
    /\ ret.op = "RegisterBuilding"
    /\ ret.err = NoError
    /\ Cardinality(DOMAIN registered) >= 2
    /\ \E f \in pending : f.call < KeyRank(Deref(ret.building).ID)

\* C4: a GetBuildingByID that the store answers, for an ID that keys no
\* stored item, returns a nil building and a nil error, and the building
\* table is as it was.
C4_GetAbsent ==
    [][(/\ ret'.op = "GetBuildingByID"
        /\ ret'.db = "ok"
        /\ ret'.id \notin DOMAIN buildingTable)
       => /\ ret'.building = Nil
          /\ ret'.err = NoError
          /\ buildingTable' = buildingTable]_vars

\* a never-registered ID looked up while buildings are stored
C4_Witness ==
    /\ ret.op = "GetBuildingByID"
    /\ ret.db = "ok"
    /\ ret.id = "nonexistent"
    /\ ret.building = Nil
    /\ buildingTable # EmptyTable

\* C5: once RegisterBuilding has returned an ID and a DeregisterBuilding of
\* it has then returned without error, the ID keys no stored item, and every
\* GetBuildingByID of it that the store answers returns (nil, nil).
C5_DeregisteredStaysGone ==
    /\ \A id \in DOMAIN deregistered :
          deregistered[id] >= 1 => id \notin DOMAIN buildingTable
    /\ (/\ ret.op = "GetBuildingByID"
        /\ ret.db = "ok"
        /\ ret.id \in DOMAIN deregistered
        /\ deregistered[ret.id] >= 1)
       => (ret.building = Nil /\ ret.err = NoError)

\* a deregistered building looked up while another building is stored
C5_Witness ==
    /\ ret.op = "GetBuildingByID"
    /\ ret.db = "ok"
    /\ ret.id \in DOMAIN deregistered
    /\ deregistered[ret.id] >= 1
    /\ buildingTable # EmptyTable

\* C6: a DeregisterBuilding that the store answers returns no error whether
\* or not the ID keys an item; it leaves no item under the ID, and where none
\* was there it leaves the building table as it was (so a second call on the
\* same ID changes nothing and does not fail).
C6_DeregisterIdempotent ==
    [][(ret'.op = "DeregisterBuilding" /\ ret'.db = "ok")
       => /\ ret'.err = NoError
          /\ ret'.id \notin DOMAIN buildingTable'
          /\ ret'.id \notin DOMAIN buildingTable => buildingTable' = buildingTable]_vars

\* a second successful DeregisterBuilding of a registered building
C6_Witness ==
    /\ ret.op = "DeregisterBuilding"
    /\ ret.err = NoError
    /\ ret.id \in DOMAIN deregistered
    /\ deregistered[ret.id] = 2

\* C7: RegisterBuilding called with in = nil or an empty in.Name returns a
\* nil building and the bad-request error, and that call issues no
\* identifier, starts no PutItem and leaves the building table as it was.
C7_InvalidArgument ==
    [][(ret'.op = "RegisterBuilding" /\ (ret'.in = Nil \/ Deref(ret'.in).Name = ""))
       => /\ ret'.building = Nil
          /\ ret'.err = BadRequest
          /\ ret' # ret => UNCHANGED <<ulidClock, pending, buildingTable>>]_vars

\* an input with an ID and no name rejected after buildings were registered
C7_Witness ==
    /\ ret.op = "RegisterBuilding"
    /\ ret.in # Nil
    /\ Deref(ret.in).Name = ""
    /\ Deref(ret.in).ID # ""
    /\ ret.err = BadRequest
    /\ registered # EmptyTable

\* C8: a ListBuildings that returns no error returns exactly the stored
\* buildings, each once, in a slice that is not nil.
C8_ListReturnsAll ==
    (ret.op = "ListBuildings" /\ ret.err = NoError)
    => /\ ~ret.buildings.isNil
       /\ {Deref(ret.buildings.elems[i]) : i \in 1 .. Len(ret.buildings.elems)}
             = StoredBuildings
       /\ Len(ret.buildings.elems) = Cardinality(DOMAIN buildingTable)

\* C9: a DeregisterBuilding step removes nothing but the item under its ID
\* from the building table, changes no item that stays, and leaves the unit
\* and resident tables as they were.
C9_NoCascade ==
    [][ret'.op = "DeregisterBuilding"
       => /\ unitTable' = unitTable
          /\ residentTable' = residentTable
          /\ DOMAIN buildingTable' \subseteq DOMAIN buildingTable
          /\ \A k \in DOMAIN buildingTable \ {ret'.id} :
                k \in DOMAIN buildingTable' /\ buildingTable'[k] = buildingTable[k]]_vars

\* a registered building deregistered while a unit refers to it and a
\* resident lives in that unit
C9_Witness ==
    /\ ret.op = "DeregisterBuilding"
    /\ ret.err = NoError
    /\ ret.id \in DOMAIN registered
    /\ ret.id \notin DOMAIN buildingTable
    /\ \E u \in DOMAIN unitTable :
          /\ unitTable[u].BuildingID = ret.id
          /\ \E r \in DOMAIN residentTable : residentTable[r].UnitID = u

====
